---- MODULE Spec2Model ----
(***************************************************************************)
(* Model of the Oathkeeper Configurator charm (src/src/charm.py).          *)
(*                                                                         *)
(* Strings are sequences of tokens: a token is a piece of literal text or  *)
(* one jinja2 expression.  An optional string (a config key that may be    *)
(* unset) is the empty tuple (None) or a one-element tuple holding the     *)
(* string.                                                                 *)
(***************************************************************************)
EXTENDS Integers, Sequences, FiniteSets, TLC

\* ------------------------------------------------------------------ bounds
MaxDeferred == 1

\* An operator that uses an intermediate value several times takes it as the
\* one element of a set, CHOOSE r \in { F(x) : x \in { v } } : TRUE, so that
\* the value is computed once.

\* ------------------------------------------------------- optional values
None == << >>
Some(s) == << s >>
Val(o) == o[1]

\* Python truthiness of an Optional[str]: None and "" are falsy.
Truthy(o) == o # None /\ Val(o) # << >>

\* ------------------------------------------------------------ str helpers
Whitespace == {" "}

\* str.isspace(): at least one character and all of them whitespace.
isspace(s) == Len(s) > 0 /\ \A i \in 1..Len(s) : s[i] \in Whitespace

RECURSIVE lstrip(_)
lstrip(s) ==
    IF s # << >> /\ Head(s) \in Whitespace THEN lstrip(Tail(s)) ELSE s

RECURSIVE rstrip(_)
rstrip(s) ==
    IF s # << >> /\ s[Len(s)] \in Whitespace
    THEN rstrip(SubSeq(s, 1, Len(s) - 1)) ELSE s

\* str.strip()
strip(s) == rstrip(lstrip(s))

\* str.replace("/", "-")
replace_slash(s) == [i \in 1..Len(s) |-> IF s[i] = "/" THEN "-" ELSE s[i]]

RECURSIVE split_slash_0(_)
\* str.split("/")[0]
split_slash_0(s) ==
    IF s = << >> \/ Head(s) = "/" THEN << >>
    ELSE << Head(s) >> \o split_slash_0(Tail(s))

\* bool(config and not config.isspace())
_is_not_empty(config) == Truthy(config) /\ ~isspace(Val(config))

\* ---------------------------------------------------------- json.loads
\* A recogniser for the JSON grammar over tokens: scalars, arrays, objects
\* and insignificant whitespace.  json_value(s, i) is the index after the
\* value that starts at i, or 0 when there is none.
JsonScalars == {"1", "\"id\""}
JsonStrings == {"\"id\""}

RECURSIVE json_ws(_, _)
json_ws(s, i) ==
    IF i <= Len(s) /\ s[i] \in Whitespace THEN json_ws(s, i + 1) ELSE i

RECURSIVE json_value(_, _), json_elements(_, _), json_members(_, _)
json_value(s, i) ==
    LET j == json_ws(s, i) IN
    IF j > Len(s) THEN 0
    ELSE IF s[j] \in JsonScalars THEN j + 1
    ELSE IF s[j] = "["
         THEN LET k == json_ws(s, j + 1) IN
              IF k <= Len(s) /\ s[k] = "]" THEN k + 1
              ELSE json_elements(s, j + 1)
    ELSE IF s[j] = "{"
         THEN LET k == json_ws(s, j + 1) IN
              IF k <= Len(s) /\ s[k] = "}" THEN k + 1
              ELSE json_members(s, j + 1)
    ELSE 0

json_elements(s, i) ==
    LET e == json_value(s, i) IN
    IF e = 0 THEN 0
    ELSE LET k == json_ws(s, e) IN
         IF k > Len(s) THEN 0
         ELSE IF s[k] = "," THEN json_elements(s, k + 1)
         ELSE IF s[k] = "]" THEN k + 1
         ELSE 0

json_members(s, i) ==
    LET j == json_ws(s, i) IN
    IF j > Len(s) \/ s[j] \notin JsonStrings THEN 0
    ELSE LET c == json_ws(s, j + 1) IN
         IF c > Len(s) \/ s[c] # ":" THEN 0
         ELSE LET e == json_value(s, c + 1) IN
              IF e = 0 THEN 0
              ELSE LET k == json_ws(s, e) IN
                   IF k > Len(s) THEN 0
                   ELSE IF s[k] = "," THEN json_members(s, k + 1)
                   ELSE IF s[k] = "}" THEN k + 1
                   ELSE 0

\* json.loads(config) returns (TRUE) or raises json.JSONDecodeError (FALSE)
json_loads(s) ==
    LET e == json_value(s, 1) IN e # 0 /\ json_ws(s, e) > Len(s)

\* validate_access_rules_config: TRUE when no InvalidConfigError is raised
validate_access_rules_config(config) == json_loads(config)

\* ------------------------------------------------------ jinja2 templates
JujuModel == "{{juju_model}}"
JujuApplication == "{{juju_application}}"
JujuUnit == "{{juju_unit}}"
\* an expression naming a variable the render call does not supply
UnknownVars == {"{{juju_foo}}"}
\* an expression that is never closed: jinja2.Template() cannot parse it
Unparsable == {"{{"}

has_token(s, toks) == \E i \in 1..Len(s) : s[i] \in toks

RECURSIVE substitute(_, _, _, _)
substitute(obj, model_name, unit_name, app_name) ==
    IF obj = << >> THEN << >>
    ELSE (IF Head(obj) = JujuModel THEN model_name
          ELSE IF Head(obj) = JujuApplication THEN app_name
          ELSE IF Head(obj) = JujuUnit THEN unit_name
          ELSE << Head(obj) >>)
         \o substitute(Tail(obj), model_name, unit_name, app_name)

\* _RouteConfig.render._render: the outcome of rendering one template.
\* err is "" on success, else the name of the exception raised.
_render(obj, model_name, unit_name, app_name) ==
    IF has_token(obj, Unparsable)
    THEN [err |-> "TemplateSyntaxError", val |-> << >>]
    ELSE IF has_token(obj, UnknownVars)
    THEN [err |-> "TemplateKeyError", val |-> << >>]
    ELSE [err |-> "",
          val |-> substitute(obj, model_name, unit_name, app_name)]

\* urlparse(url).hostname: the network location follows the scheme's "//"
\* and ends at the next "/"; leading whitespace of the url is dropped.
RECURSIVE netloc(_)
netloc(s) ==
    IF s = << >> \/ Head(s) = "/" THEN << >>
    ELSE << Head(s) >> \o netloc(Tail(s))

hostname(url) ==
    LET u == lstrip(url) IN
    IF u # << >> /\ Head(u) = "http://" THEN netloc(Tail(u)) ELSE << >>

\* _RouteConfig.generate_rule_from_url; the tokens "Host(" and ")" stand
\* for the matcher's opening and closing text, backquotes included.
generate_rule_from_url(url) ==
    IF hostname(url) = << >>
    THEN [err |-> "RuleDerivationError", val |-> << >>]
    ELSE [err |-> "", val |-> << "Host(" >> \o hostname(url) \o << ")" >>]

\* _RouteConfig.render once the root_url template has been rendered to url
\* and the rule rendered or derived to rule
render_result(url, rule, model_name, unit_name) ==
    [err |-> rule.err,
     root_url |-> url.val,
     rule |-> rule.val,
     id_ |-> unit_name \o << "-" >> \o model_name]

\* _RouteConfig.render deriving the rule from the root_url template
render_rule_from_template(config, url, model_name, unit_name, app_name) ==
    IF url.err # "" THEN url
    ELSE IF ~Truthy(config.rule)
         THEN generate_rule_from_url(Val(config.root_url))
         ELSE _render(Val(config.rule), model_name, unit_name, app_name)

\* _RouteConfig.render, the rule for the rendered root_url url
render_rule(config, url, model_name, unit_name, app_name) ==
    IF url.err # "" THEN url
    ELSE IF ~Truthy(config.rule)
         THEN generate_rule_from_url(url.val)
         ELSE _render(Val(config.rule), model_name, unit_name, app_name)

\* _RouteConfig.render, with the rendered root_url url
render_url(config, url, model_name, unit_name, app_name) ==
    CHOOSE route \in
        { render_result(url, rule, model_name, unit_name) :
            rule \in { render_rule(config, url, model_name, unit_name,
                                   app_name) } } : TRUE

\* _RouteConfig.render
render(config, model_name, unit_name, app_name) ==
    CHOOSE route \in
        { render_url(config, url, model_name, unit_name, app_name) :
            url \in { _render(Val(config.root_url), model_name, unit_name,
                              app_name) } } : TRUE

\* _RouteConfig.is_valid._check_var
_check_var(obj) ==
    _is_not_empty(obj) /\ Val(obj) = strip(Val(obj))

\* _RouteConfig.is_valid once the render with dummy values has ended with
\* the exception dummy ("" when it returned or was not attempted)
is_valid_checks(config, dummy) ==
    IF dummy \in {"TemplateKeyError", "RuleDerivationError"} THEN "False"
    ELSE IF dummy # "" THEN dummy
    ELSE IF ~Truthy(config.rule)
         THEN (IF _check_var(config.root_url) THEN "True" ELSE "False")
    ELSE IF _check_var(config.rule) /\ _check_var(config.root_url)
         THEN "True" ELSE "False"

\* _RouteConfig.is_valid: "True", "False", or the name of the exception
\* that escapes it.
is_valid(config) ==
    CHOOSE valid \in
        { is_valid_checks(config, dummy) :
            dummy \in { IF Truthy(config.root_url)
                        THEN render(config, << "foo" >>, << "bar" >>,
                                    << "baz" >>).err
                        ELSE "" } } : TRUE

\* --------------------------------------------------------------- inputs
\* Values an operator can give to each key of the charm config (juju config).
AccessRulesValues ==
    { None,
      Some(<< " " >>),
      Some(<< "{", "\"id\"", ":", "1" >>),
      Some(<< " ", "{", "\"id\"", ":", "[", "1", "]", "}", " " >>) }

RootUrlValues ==
    { None,
      Some(<< "http://", "foo.bar", "/", JujuModel, "-", JujuUnit >>),
      Some(<< "foo.bar", "/", JujuApplication >>),
      Some(<< "http://", "foo.bar", "/", "{{juju_foo}}" >>),
      Some(<< "http://", "foo.bar", "/", "{{" >>) }

RuleValues ==
    { None,
      Some(<< "Host(", "foo.bar", "/", JujuModel, "-", JujuUnit, ")" >>) }

ConfigValues(key) ==
    IF key = "access_rules" THEN AccessRulesValues
    ELSE IF key = "root_url" THEN RootUrlValues
    ELSE RuleValues

\* The remote applications that may request ingress, their units, and the
\* data a unit shares.
Apps == {"remote", "other"}
UnitsOf(app) ==
    IF app = "remote"
    THEN { << "remote", "/", "0" >>, << "remote", "/", "1" >> }
    ELSE { << "other", "/", "0" >> }
ModelName == << "testing" >>
RequirerData(unit) == [name |-> unit, model |-> ModelName]

\* ------------------------------------------------------------- functions
EmptyMap == [k \in {} |-> None]
Put(f, k, v) == [x \in DOMAIN f \cup {k} |-> IF x = k THEN v ELSE f[x]]
Remove(seq, i) == SubSeq(seq, 1, i - 1) \o SubSeq(seq, i + 1, Len(seq))

\* Every order in which a set can be iterated.
Orders(S) ==
    { o \in [1..Cardinality(S) -> S] :
        \A i, j \in 1..Cardinality(S) : i # j => o[i] # o[j] }

\* ----------------------------------------------------------------- state
VARIABLES
    config,          \* self.model.config: access_rules, root_url, rule
    relations,       \* self.model.relations["ingress-per-unit"]
    status,          \* self.unit.status
    invalid_config,  \* self._stored.invalid_config
    deferred,        \* data_provided events deferred and not yet re-emitted
    pass,            \* what the handler that has just run did
    set_by           \* the check whose failure last set invalid_config

vars == << config, relations, status, invalid_config, deferred, pass, set_by >>

\* ---------------------------------------------------------------- status
UnknownStatus == [name |-> "unknown", message |-> ""]
MaintenanceStatus == [name |-> "maintenance", message |-> "Configuring the charm"]
ActiveStatus == [name |-> "active", message |-> ""]
BlockedStatus(message) == [name |-> "blocked", message |-> message]

InvalidJsonMessage == "Invalid json configuration, see logs"
InvalidConfigMessage == "Invalid or missing config. See logs for more info"
MissingAccessRulesMessage == "Missing required configuration value: access_rules"
AwaitingRelationMessage == "Awaiting to be related via ingress-per-unit"
RelationNotReadyMessage == "ingress-per-unit relation is not ready"

\* ------------------------------------------------- IngressPerUnitProvider
\* is_unit_ready: the unit has shared valid data in its unit databag
is_unit_ready(relation, unit) == relation.data[unit] # None

\* is_ready: some unit of the relation has shared valid data
is_ready(relation) ==
    \E unit \in DOMAIN relation.data : is_unit_ready(relation, unit)

\* get_data: the data a ready unit has shared
get_data(relation, unit) == Val(relation.data[unit])

\* publish_url: records the url under the unit's name in the application
\* databag of the relation, overwriting an earlier url for that name
publish_url(ingress, unit_name, url) == Put(ingress, unit_name, url)

\* ------------------------------------------------------------- the charm
\* access_rules_configured, with config.get("access_rules", "")
access_rules_configured(cfg) ==
    _is_not_empty(IF cfg.access_rules = None THEN Some(<< >>)
                  ELSE cfg.access_rules)

\* _config: the route template built from the charm config
_config(cfg) == [root_url |-> cfg.root_url, rule |-> cfg.rule]

\* _get_relation returning the last relation of the endpoint
_ipu_relation_last(rels) == IF rels = << >> THEN None ELSE Some(rels[Len(rels)])

\* _get_relation / _ipu_relation: the first relation of the endpoint
_ipu_relation(rels) == IF rels = << >> THEN None ELSE Some(rels[1])

\* _config_for_unit passing the unit name on without replacing its "/"
_config_for_unit_raw_name(cfg, unit_data) ==
    IF ~has_token(unit_data.name, {"/"})
    THEN [err |-> "AssertionError", root_url |-> << >>, rule |-> << >>,
          id_ |-> << >>]
    ELSE render([root_url |-> cfg.root_url, rule |-> cfg.rule],
                unit_data.model, unit_data.name,
                split_slash_0(unit_data.name))

\* _config_for_unit
_config_for_unit(cfg, unit_data) ==
    IF ~has_token(unit_data.name, {"/"})
    THEN [err |-> "AssertionError", root_url |-> << >>, rule |-> << >>,
          id_ |-> << >>]
    ELSE render(_config(cfg), unit_data.model,
                replace_slash(unit_data.name), split_slash_0(unit_data.name))

\* _generate_traefik_unit_config
_generate_traefik_unit_config(route) ==
    [router |-> [rule |-> route.rule,
                 service |-> << "juju-" >> \o route.id_ \o << "-service" >>,
                 entryPoints |-> << "web" >>,
                 middlewares |-> << "oathkeeper" >>],
     router_name |-> << "juju-" >> \o route.id_ \o << "-router" >>,
     service |-> [loadBalancer |-> [servers |-> << [url |-> route.root_url] >>]],
     service_name |-> << "juju-" >> \o route.id_ \o << "-service" >>]

RECURSIVE merge_routers(_), merge_services(_)
merge_routers(configs) ==
    IF configs = << >> THEN EmptyMap
    ELSE Put(merge_routers(SubSeq(configs, 1, Len(configs) - 1)),
             configs[Len(configs)].router_name, configs[Len(configs)].router)

merge_services(configs) ==
    IF configs = << >> THEN EmptyMap
    ELSE Put(merge_services(SubSeq(configs, 1, Len(configs) - 1)),
             configs[Len(configs)].service_name, configs[Len(configs)].service)

\* _merge_traefik_configs: dict comprehensions, a later key overwrites
_merge_traefik_configs(configs) ==
    [http |-> [routers |-> merge_routers(configs),
               services |-> merge_services(configs)]]

\* _generate_traefik_forwardauth_config, iterating the ready units of the
\* relation in the order given.  calls lists the publish_url invocations;
\* err names the exception that stopped the loop, if any.
RECURSIVE forwardauth_loop(_, _, _, _)
forwardauth_loop(cfg, relation, order, acc) ==
    IF order = << >> THEN acc
    ELSE LET unit_data == get_data(relation, Head(order))
             config_data == _config_for_unit(cfg, unit_data)
         IN  IF config_data.err # ""
             THEN [acc EXCEPT !.err = config_data.err]
             ELSE forwardauth_loop(cfg, relation, Tail(order),
                    [err |-> "",
                     unit_configs |-> Append(acc.unit_configs,
                         _generate_traefik_unit_config(config_data)),
                     calls |-> Append(acc.calls,
                         [unit |-> Head(order), name |-> unit_data.name,
                          url |-> config_data.root_url]),
                     ingress |-> publish_url(acc.ingress, unit_data.name,
                                             config_data.root_url)])

ready_units(relation) ==
    { unit \in DOMAIN relation.data : is_unit_ready(relation, unit) }

_generate_traefik_forwardauth_config(cfg, relation, order) ==
    LET loop == forwardauth_loop(cfg, relation, order,
                    [err |-> "", unit_configs |-> << >>, calls |-> << >>,
                     ingress |-> relation.ingress])
    IN  [err |-> loop.err, calls |-> loop.calls, ingress |-> loop.ingress,
         traefik_config |-> _merge_traefik_configs(loop.unit_configs)]

\* _is_traefik_configuration_valid that forgets to set the flag
flag_for_keeps_flag(valid, flag) ==
    IF valid = "False" THEN [ret |-> FALSE, err |-> "", flag |-> flag]
    ELSE IF valid = "True" THEN [ret |-> TRUE, err |-> "", flag |-> FALSE]
    ELSE [ret |-> FALSE, err |-> valid, flag |-> flag]

\* _is_traefik_configuration_valid with the two assignments swapped
flag_for_swapped(valid, flag) ==
    IF valid = "False" THEN [ret |-> FALSE, err |-> "", flag |-> FALSE]
    ELSE IF valid = "True" THEN [ret |-> TRUE, err |-> "", flag |-> TRUE]
    ELSE [ret |-> FALSE, err |-> valid, flag |-> flag]

\* _is_traefik_configuration_valid that leaves the flag alone when the
\* template is valid
flag_for_never_clears(valid, flag) ==
    IF valid = "False" THEN [ret |-> FALSE, err |-> "", flag |-> TRUE]
    ELSE IF valid = "True" THEN [ret |-> TRUE, err |-> "", flag |-> flag]
    ELSE [ret |-> FALSE, err |-> valid, flag |-> flag]

\* _is_traefik_configuration_valid for the outcome valid of is_valid: ret
\* is the value returned, err the exception that escapes, flag the new
\* value of _stored.invalid_config
flag_for(valid, flag) ==
    IF valid = "False" THEN [ret |-> FALSE, err |-> "", flag |-> TRUE]
    ELSE IF valid = "True" THEN [ret |-> TRUE, err |-> "", flag |-> FALSE]
    ELSE [ret |-> FALSE, err |-> valid, flag |-> flag]

\* _is_traefik_configuration_valid
_is_traefik_configuration_valid(cfg, flag) ==
    CHOOSE ret \in
        { flag_for(valid, flag) : valid \in { is_valid(_config(cfg)) } } : TRUE

\* _is_traefik_config_ready that does not set the status for an invalid
\* template
ready_for_keeps_status(valid, rels, flag, st) ==
    IF valid.err # ""
    THEN [ret |-> FALSE, err |-> valid.err, flag |-> flag, status |-> st,
          valid |-> valid.err, relation |-> "skipped"]
    ELSE IF ~valid.ret
    THEN [ret |-> FALSE, err |-> "", flag |-> valid.flag, status |-> st,
          valid |-> "False", relation |-> "skipped"]
    ELSE IF _ipu_relation(rels) = None
    THEN [ret |-> FALSE, err |-> "", flag |-> valid.flag, status |-> st,
          valid |-> "True", relation |-> "missing"]
    ELSE IF ~is_ready(Val(_ipu_relation(rels)))
    THEN [ret |-> FALSE, err |-> "", flag |-> valid.flag, status |-> st,
          valid |-> "True", relation |-> "not_ready"]
    ELSE [ret |-> TRUE, err |-> "", flag |-> valid.flag, status |-> st,
          valid |-> "True", relation |-> "ready"]

\* _is_traefik_config_ready once _is_traefik_configuration_valid gave
\* valid: ret, err and flag as above, status the unit status it leaves,
\* valid and relation the outcome of each check it made
ready_for(valid, rels, flag, st) ==
    IF valid.err # ""
    THEN [ret |-> FALSE, err |-> valid.err, flag |-> flag, status |-> st,
          valid |-> valid.err, relation |-> "skipped"]
    ELSE IF ~valid.ret
    THEN [ret |-> FALSE, err |-> "", flag |-> valid.flag,
          status |-> BlockedStatus(InvalidConfigMessage),
          valid |-> "False", relation |-> "skipped"]
    ELSE IF _ipu_relation(rels) = None
    THEN [ret |-> FALSE, err |-> "", flag |-> valid.flag, status |-> st,
          valid |-> "True", relation |-> "missing"]
    ELSE IF ~is_ready(Val(_ipu_relation(rels)))
    THEN [ret |-> FALSE, err |-> "", flag |-> valid.flag, status |-> st,
          valid |-> "True", relation |-> "not_ready"]
    ELSE [ret |-> TRUE, err |-> "", flag |-> valid.flag, status |-> st,
          valid |-> "True", relation |-> "ready"]

\* _is_traefik_config_ready
_is_traefik_config_ready(cfg, rels, flag, st) ==
    CHOOSE ready \in
        { ready_for(valid, rels, flag, st) :
            valid \in { _is_traefik_configuration_valid(cfg, flag) } } : TRUE

\* _on_update_status that returns without a status when unrelated
_on_update_status_silent_unrelated(cfg, rels, flag, st) ==
    IF flag THEN st
    ELSE LET st1 == IF ~access_rules_configured(cfg)
                    THEN BlockedStatus(MissingAccessRulesMessage) ELSE st
         IN  IF rels = << >>
             THEN st1
             ELSE IF ~is_ready(rels[1])
             THEN BlockedStatus(RelationNotReadyMessage)
             ELSE ActiveStatus

\* _on_update_status without the readiness check
_on_update_status_no_readiness(cfg, rels, flag, st) ==
    IF flag THEN st
    ELSE IF rels = << >>
         THEN BlockedStatus(AwaitingRelationMessage)
         ELSE ActiveStatus

\* _on_update_status: the status it leaves.  The assignment for a missing
\* access_rules is not followed by a return, so a later branch overwrites it.
_on_update_status(cfg, rels, flag, st) ==
    IF flag THEN st
    ELSE LET st1 == IF ~access_rules_configured(cfg)
                    THEN BlockedStatus(MissingAccessRulesMessage) ELSE st
         IN  IF _ipu_relation(rels) = None
             THEN BlockedStatus(AwaitingRelationMessage)
             ELSE IF ~is_ready(Val(_ipu_relation(rels)))
             THEN BlockedStatus(RelationNotReadyMessage)
             ELSE ActiveStatus

\* ------------------------------------------------------------ bookkeeping
\* pass describes the handler run that produced the current state:
\*   event     the event handled ("" when the environment moved last)
\*   json      outcome of validate_access_rules_config: ok, failed, skipped
\*   valid     outcome of is_valid: True, False, an exception, skipped
\*   relation  outcome of the relation checks of _is_traefik_config_ready
\*   generated whether _generate_traefik_forwardauth_config ran
\*   calls     the publish_url invocations, in order
\*   deferred  whether event.defer() was called
\*   err       the exception that ended the handler, "" if it returned
\*   before    invalid_config and set_by when the handler started
\*   rerun     whether the same event was handled just before, with
\*             nothing changed in between
\*   reemitted whether the event handled had been deferred before
NoPass ==
    [event |-> "", json |-> "skipped", valid |-> "skipped",
     relation |-> "skipped", generated |-> FALSE, calls |-> << >>,
     deferred |-> FALSE, err |-> "",
     before |-> [invalid_config |-> FALSE, set_by |-> ""],
     rerun |-> FALSE, reemitted |-> FALSE]

\* the record of a handler run that starts in the current state
StartPass(event) ==
    [NoPass EXCEPT !.event = event,
                   !.before = [invalid_config |-> invalid_config,
                               set_by |-> set_by],
                   !.rerun = (pass.event = event)]

\* the relations after the first one's application databag is replaced
with_ingress(rels, ingress) == [rels EXCEPT ![1].ingress = ingress]

\* the check that set the flag, after a handler moved it from old to new
set_by_after(old, new, json, valid) ==
    IF ~new THEN ""
    ELSE IF json = "failed" THEN "access_rules"
    ELSE IF valid = "False" THEN "route"
    ELSE old

\* ------------------------------------------------------------------ Init
\* __init__: _stored.set_default(invalid_config=False); nothing configured,
\* no relation, no status set by the charm yet
Init ==
    /\ config = [access_rules |-> None, root_url |-> None, rule |-> None]
    /\ relations = << >>
    /\ status = UnknownStatus
    /\ invalid_config = FALSE
    /\ deferred = 0
    /\ pass = NoPass
    /\ set_by = ""

\* ------------------------------------------------------------ environment
\* juju config key=value / juju config --reset key
SetConfig ==
    \E key \in {"access_rules", "root_url", "rule"} :
      \E value \in ConfigValues(key) :
        /\ value # config[key]
        /\ config' = [config EXCEPT ![key] = value]
        /\ pass' = NoPass
        /\ UNCHANGED << relations, status, invalid_config, deferred, set_by >>

\* juju integrate: a new relation is appended to the endpoint's list; the
\* units of the remote application have joined and shared nothing yet
RelationCreated ==
    \E app \in Apps :
    /\ \A i \in 1..Len(relations) : relations[i].app # app
    /\ relations' = Append(relations,
                           [app |-> app,
                            data |-> [unit \in UnitsOf(app) |-> None],
                            ingress |-> EmptyMap])
    /\ pass' = NoPass
    /\ UNCHANGED << config, status, invalid_config, deferred, set_by >>

\* juju remove-relation
RelationBroken ==
    \E i \in 1..Len(relations) :
        /\ relations' = Remove(relations, i)
        /\ pass' = NoPass
        /\ UNCHANGED << config, status, invalid_config, deferred, set_by >>

\* a remote unit writes its unit databag: valid requirer data, or data
\* that does not validate
RelationChanged ==
    \E i \in 1..Len(relations) : \E unit \in DOMAIN relations[i].data :
      \E data \in {None, Some(RequirerData(unit))} :
        /\ data # relations[i].data[unit]
        /\ relations' = [relations EXCEPT ![i].data[unit] = data]
        /\ pass' = NoPass
        /\ UNCHANGED << config, status, invalid_config, deferred, set_by >>

\* --------------------------------------------------------------- handlers
\* the access_rules block without the return in its except clause
_access_rules_block_no_return(cfg, flag, st) ==
    IF ~access_rules_configured(cfg)
    THEN [json |-> "skipped", flag |-> flag, status |-> st,
          returned |-> FALSE]
    ELSE IF validate_access_rules_config(Val(cfg.access_rules))
    THEN [json |-> "ok", flag |-> FALSE, status |-> st, returned |-> FALSE]
    ELSE [json |-> "failed", flag |-> TRUE,
          status |-> BlockedStatus(InvalidJsonMessage), returned |-> FALSE]

\* _on_config_changed, the access_rules block: json is the outcome of the
\* validation, flag and status what the block leaves, returned whether the
\* handler returns from the except clause
_access_rules_block(cfg, flag, st) ==
    IF ~access_rules_configured(cfg)
    THEN [json |-> "skipped", flag |-> flag, status |-> st,
          returned |-> FALSE]
    ELSE IF validate_access_rules_config(Val(cfg.access_rules))
    THEN [json |-> "ok", flag |-> FALSE, status |-> st, returned |-> FALSE]
    ELSE [json |-> "failed", flag |-> TRUE,
          status |-> BlockedStatus(InvalidJsonMessage), returned |-> TRUE]

\* _on_config_changed after the access_rules block, when it has not
\* returned: start is the record of the pass so far, ready the outcome of
\* _is_traefik_config_ready
_on_config_changed_rest(start, ready) ==
    IF ready.err # ""
    THEN \* the hook fails: the stored state is not committed
         /\ status' = ready.status
         /\ pass' = [start EXCEPT !.valid = ready.valid,
                                  !.relation = ready.relation,
                                  !.err = ready.err]
         /\ UNCHANGED << config, relations, invalid_config, deferred, set_by >>
    ELSE IF ~ready.ret
    THEN /\ status' = _on_update_status(config, relations, ready.flag,
                                        ready.status)
         /\ invalid_config' = ready.flag
         /\ set_by' = set_by_after(set_by, ready.flag, start.json, ready.valid)
         /\ pass' = [start EXCEPT !.valid = ready.valid,
                                  !.relation = ready.relation]
         /\ UNCHANGED << config, relations, deferred >>
    ELSE \E order \in Orders(ready_units(relations[1])) :
         \E gen \in { _generate_traefik_forwardauth_config(
                          config, relations[1], order) } :
             IF gen.err # ""
             THEN /\ status' = ready.status
                  /\ pass' = [start EXCEPT !.valid = ready.valid,
                                           !.relation = ready.relation,
                                           !.generated = TRUE,
                                           !.err = gen.err]
                  /\ UNCHANGED << config, relations, invalid_config,
                                  deferred, set_by >>
             ELSE /\ relations' = with_ingress(relations, gen.ingress)
                  /\ status' = _on_update_status(config, relations',
                                                 ready.flag, ready.status)
                  /\ invalid_config' = ready.flag
                  /\ set_by' = set_by_after(set_by, ready.flag, start.json,
                                            ready.valid)
                  /\ pass' = [start EXCEPT !.valid = ready.valid,
                                           !.relation = ready.relation,
                                           !.generated = TRUE,
                                           !.calls = gen.calls]
                  /\ UNCHANGED << config, deferred >>

\* _on_config_changed once the access_rules block has left block
_on_config_changed_after(block) ==
    IF block.returned
    THEN /\ status' = block.status
         /\ invalid_config' = block.flag
         /\ set_by' = set_by_after(set_by, block.flag, block.json, "skipped")
         /\ pass' = [StartPass("config_changed") EXCEPT !.json = block.json]
         /\ UNCHANGED << config, relations, deferred >>
    ELSE _on_config_changed_rest(
             [StartPass("config_changed") EXCEPT !.json = block.json],
             _is_traefik_config_ready(config, relations, block.flag,
                                      MaintenanceStatus))

\* _on_config_changed
_on_config_changed ==
    _on_config_changed_after(
        _access_rules_block(config, invalid_config, status))

\* the record of a data_provided handler run that starts in the current
\* state and leaves queued events deferred besides the one it handles
StartDataProvided(queued) ==
    [StartPass("data_provided") EXCEPT !.reemitted = (queued < deferred)]

\* _on_ingress_data_provided once _is_traefik_config_ready gave ready,
\* leaving queued events of this kind deferred besides the one handled
_on_ingress_data_provided_after(ready, queued) ==
    IF ready.err # ""
    THEN /\ pass' = [StartDataProvided(queued) EXCEPT
                         !.valid = ready.valid, !.relation = ready.relation,
                         !.err = ready.err]
         /\ deferred' = queued
         /\ UNCHANGED << config, relations, status, invalid_config, set_by >>
    ELSE IF ~ready.ret
    THEN /\ status' = ready.status
         /\ invalid_config' = ready.flag
         /\ set_by' = set_by_after(set_by, ready.flag, "skipped", ready.valid)
         /\ deferred' = queued + 1
         /\ pass' = [StartDataProvided(queued) EXCEPT
                         !.valid = ready.valid, !.relation = ready.relation,
                         !.deferred = TRUE]
         /\ UNCHANGED << config, relations >>
    ELSE \E order \in Orders(ready_units(relations[1])) :
         \E gen \in { _generate_traefik_forwardauth_config(
                          config, relations[1], order) } :
             IF gen.err # ""
             THEN /\ pass' = [StartDataProvided(queued) EXCEPT
                                  !.valid = ready.valid,
                                  !.relation = ready.relation,
                                  !.generated = TRUE, !.err = gen.err]
                  /\ deferred' = queued
                  /\ UNCHANGED << config, relations, status, invalid_config,
                                  set_by >>
             ELSE /\ relations' = with_ingress(relations, gen.ingress)
                  /\ status' = _on_update_status(config, relations',
                                                 ready.flag, ready.status)
                  /\ invalid_config' = ready.flag
                  /\ set_by' = set_by_after(set_by, ready.flag, "skipped",
                                            ready.valid)
                  /\ deferred' = queued
                  /\ pass' = [StartDataProvided(queued) EXCEPT
                                  !.valid = ready.valid,
                                  !.relation = ready.relation,
                                  !.generated = TRUE, !.calls = gen.calls]
                  /\ UNCHANGED config

\* _on_ingress_data_provided
_on_ingress_data_provided(queued) ==
    \E ready \in { _is_traefik_config_ready(config, relations,
                                            invalid_config, status) } :
        _on_ingress_data_provided_after(ready, queued)

\* IngressPerUnitProvider emits data_provided for a relation of the endpoint
\* whose data is ready
DataProvided ==
    /\ deferred < MaxDeferred
    /\ \E i \in 1..Len(relations) : is_ready(relations[i])
    /\ _on_ingress_data_provided(deferred)

\* the framework re-emits a deferred data_provided event
ReemitDeferred ==
    /\ deferred > 0
    /\ _on_ingress_data_provided(deferred - 1)

Next ==
    \/ SetConfig
    \/ RelationCreated
    \/ RelationBroken
    \/ RelationChanged
    \/ _on_config_changed
    \/ DataProvided
    \/ ReemitDeferred

Spec == Init /\ [][Next]_vars

\* ---------------------------------------------------------- the retry path
\* The charm with one remote application and a config that is unset,
\* malformed or well-formed.  The framework re-emits the deferred events
\* each time the charm is dispatched, and the host dispatches it again and
\* again (update-status): a deferred event is eventually handled again.
RetryConfigValues(key) ==
    IF key = "access_rules"
    THEN { None, Some(<< "{", "\"id\"", ":", "1" >>),
           Some(<< "{", "\"id\"", ":", "1", "}" >>) }
    ELSE { None,
           Some(<< "http://", "foo.bar", "/", JujuModel, "-", JujuUnit >>),
           Some(<< "foo.bar", "/", JujuApplication >>) }

RetrySetConfig ==
    \E key \in {"access_rules", "root_url"} :
      \E value \in RetryConfigValues(key) :
        /\ value # config[key]
        /\ config' = [config EXCEPT ![key] = value]
        /\ pass' = NoPass
        /\ UNCHANGED << relations, status, invalid_config, deferred, set_by >>

RetryRelationCreated ==
    /\ relations = << >>
    /\ relations' = << [app |-> "other",
                        data |-> [unit \in UnitsOf("other") |-> None],
                        ingress |-> EmptyMap] >>
    /\ pass' = NoPass
    /\ UNCHANGED << config, status, invalid_config, deferred, set_by >>

RetryNext ==
    \/ RetrySetConfig
    \/ RetryRelationCreated
    \/ RelationBroken
    \/ RelationChanged
    \/ _on_config_changed
    \/ DataProvided
    \/ ReemitDeferred

RetrySpec == Init /\ [][RetryNext]_vars /\ WF_vars(ReemitDeferred)

\* ------------------------------------------------------ route templates
\* _RouteConfig.is_valid and _RouteConfig.render as functions of the route
\* template: the template is drawn from the values below and stays fixed,
\* each action applies one of the two and leaves the outcome in pass.
TemplateRootUrls ==
    { None,
      Some(<< >>),
      Some(<< " " >>),
      Some(<< " ", "http://", "foo.bar" >>),
      Some(<< "http://", "foo.bar", "/", " " >>),
      Some(<< "http://", "foo.bar", "/", JujuModel, "-", JujuUnit >>),
      Some(<< "http://", JujuUnit, ".", JujuApplication, "/" >>),
      Some(<< "foo.bar", "/", JujuApplication >>),
      Some(<< "http://", "foo.bar", "/", "{{juju_foo}}" >>),
      Some(<< "http://", "foo.bar", "/", "{{" >>) }

TemplateRules ==
    { None,
      Some(<< >>),
      Some(<< " " >>),
      Some(<< "Host(", JujuApplication, ".", JujuModel, ")", " " >>),
      Some(<< "Host(", JujuUnit, ".", "foo.bar", ")" >>),
      Some(<< "Host(", "{{juju_foo}}", ")" >>),
      Some(<< "Host(", "{{" >>) }

\* the data of the units a template is rendered for
UnitDataValues ==
    { [name |-> << "remote", "/", "0" >>, model |-> << "testing" >>],
      [name |-> << "other", "/", "1" >>, model |-> << "prod" >>] }

RouteInit ==
    /\ config \in { [access_rules |-> None, root_url |-> u, rule |-> r] :
                      u \in TemplateRootUrls, r \in TemplateRules }
    /\ relations = << >>
    /\ status = UnknownStatus
    /\ invalid_config = FALSE
    /\ deferred = 0
    /\ pass = NoPass
    /\ set_by = ""

\* self._config.is_valid, as _is_traefik_configuration_valid calls it
CheckRoute ==
    /\ pass' = [event |-> "is_valid", valid |-> is_valid(_config(config))]
    /\ UNCHANGED << config, relations, status, invalid_config, deferred,
                    set_by >>

\* self._config.render(...), as _config_for_unit calls it for the data of
\* a unit; root_url is a str
RenderRoute ==
    /\ config.root_url # None
    /\ \E unit_data \in UnitDataValues :
         pass' = [event |-> "render", unit_data |-> unit_data,
                  route |-> _config_for_unit(config, unit_data)]
    /\ UNCHANGED << config, relations, status, invalid_config, deferred,
                    set_by >>

RouteNext == CheckRoute \/ RenderRoute

RouteSpec == RouteInit /\ [][RouteNext]_vars

\* ----------------------------------------------------- merging the routes
\* _generate_traefik_forwardauth_config as a function of the data the
\* units of the relation share.  A unit reports its name and model itself:
\* besides its own, it may report those of another unit, or a name and a
\* model that give the same id as another pair.
MergeUnits ==
    { << "remote", "/", "0" >>, << "remote", "/", "1" >>,
      << "remote", "/", "2" >> }

MergeDataValues ==
    { None,
      Some(RequirerData(<< "remote", "/", "0" >>)),
      Some([name |-> << "remote", "/", "0" >>,
            model |-> << "x", "-", "testing" >>]),
      Some([name |-> << "remote", "/", "0", "-", "x" >>,
            model |-> << "testing" >>]) }

MergeRootUrls ==
    { Some(<< "http://", "foo.bar", "/", JujuModel, "-", JujuUnit >>),
      Some(<< "http://", "foo.bar", "/", JujuApplication >>) }

MergeInit ==
    /\ config \in { [access_rules |-> None, root_url |-> u, rule |-> None] :
                      u \in MergeRootUrls }
    /\ relations \in { << [app |-> "remote", data |-> d,
                           ingress |-> EmptyMap] >> :
                         d \in [MergeUnits -> MergeDataValues] }
    /\ status = UnknownStatus
    /\ invalid_config = FALSE
    /\ deferred = 0
    /\ pass = NoPass
    /\ set_by = ""

\* self._generate_traefik_forwardauth_config(), called once the config is
\* ready; the units of the relation are iterated in any order
Generate ==
    /\ is_ready(relations[1])
    /\ \E order \in Orders(ready_units(relations[1])) :
       \E gen \in { _generate_traefik_forwardauth_config(
                        config, relations[1], order) } :
           /\ relations' = with_ingress(relations, gen.ingress)
           /\ pass' = [event |-> "generate", err |-> gen.err,
                       calls |-> gen.calls,
                       traefik_config |-> gen.traefik_config]
    /\ UNCHANGED << config, status, invalid_config, deferred, set_by >>

MergeNext == Generate

MergeSpec == MergeInit /\ [][MergeNext]_vars

\* ================================================================ claims
\* The inputs of the pass that has just ended, read from the current state:
\* a handler changes neither the config nor the data the units share.
AccessRulesConfigured == access_rules_configured(config)
AccessRulesWellFormed ==
    AccessRulesConfigured /\ json_loads(Val(config.access_rules))
AccessRulesMalformed ==
    AccessRulesConfigured /\ ~json_loads(Val(config.access_rules))
RouteValid == is_valid(_config(config)) = "True"
RouteInvalid == is_valid(_config(config)) = "False"
RelationExists == relations # << >>
RelationReady == RelationExists /\ is_ready(relations[1])
PassEnded == pass.event # ""
ConfigChangedEnded == pass.event = "config_changed"
NothingPublished == ~pass.generated /\ pass.calls = << >>

\* C1: at the end of every pass the status is Active only if access_rules
\* is non-empty well-formed JSON, the route template is valid, and the
\* ingress-per-unit relation exists and is ready.
C1_ActiveOnlyWhenAllMet ==
    (PassEnded /\ status = ActiveStatus)
        => (AccessRulesWellFormed /\ RouteValid /\ RelationReady)

\* C2: after a config-changed pass with access_rules absent, empty or
\* whitespace-only the status is Blocked, naming the missing access_rules,
\* whatever the route template and the relation are.
C2_MissingAccessRulesBlocks ==
    (ConfigChangedEnded /\ ~AccessRulesConfigured)
        => status = BlockedStatus(MissingAccessRulesMessage)

\* C3: after a config-changed pass with non-empty access_rules that is not
\* well-formed JSON the status is Blocked with the invalid-JSON reason and
\* invalid_config is true; the pass stopped there: the route template was
\* not checked, nothing was rendered and no URL was published.
C3_InvalidJsonBlocks ==
    (ConfigChangedEnded /\ AccessRulesMalformed)
        => /\ status = BlockedStatus(InvalidJsonMessage)
           /\ invalid_config
           /\ pass.valid = "skipped"
           /\ pass.relation = "skipped"
           /\ NothingPublished
           /\ pass.err = ""

\* C3 happens though everything after the JSON check would have passed,
\* from a state whose flag was clear
C3_Witness ==
    /\ ConfigChangedEnded /\ AccessRulesMalformed
    /\ RouteValid /\ RelationReady
    /\ ~pass.before.invalid_config
    /\ pass.json = "failed"

\* C4: after a config-changed pass with well-formed access_rules and a
\* route template that fails is_valid the status is Blocked with the
\* invalid-or-missing-config reason and invalid_config is true, whatever
\* the relation is, and no URL was published.
C4_InvalidRouteBlocks ==
    (ConfigChangedEnded /\ AccessRulesWellFormed /\ RouteInvalid)
        => /\ status = BlockedStatus(InvalidConfigMessage)
           /\ invalid_config
           /\ NothingPublished
           /\ pass.err = ""

\* C4 with the relation ready
C4_Witness ==
    /\ ConfigChangedEnded /\ AccessRulesWellFormed /\ RouteInvalid
    /\ RelationReady
    /\ pass.json = "ok" /\ pass.valid = "False"

\* C5: after a config-changed pass with well-formed access_rules and a
\* valid route template but no ingress-per-unit relation the status is
\* Blocked with the awaiting-relation reason and no URL was published.
C5_AwaitingRelation ==
    (ConfigChangedEnded /\ AccessRulesWellFormed /\ RouteValid
         /\ ~RelationExists)
        => /\ status = BlockedStatus(AwaitingRelationMessage)
           /\ NothingPublished
           /\ pass.err = ""

C5_Witness ==
    /\ ConfigChangedEnded /\ AccessRulesWellFormed /\ RouteValid
    /\ ~RelationExists
    /\ pass.valid = "True" /\ pass.relation = "missing"

\* C6: after a config-changed pass with well-formed access_rules, a valid
\* route template and a relation that exists but is not ready the status is
\* Blocked with the relation-not-ready reason and no URL was published.
C6_RelationNotReady ==
    (ConfigChangedEnded /\ AccessRulesWellFormed /\ RouteValid
         /\ RelationExists /\ ~RelationReady)
        => /\ status = BlockedStatus(RelationNotReadyMessage)
           /\ NothingPublished
           /\ pass.err = ""

\* C6 with a second relation on the endpoint that is ready
C6_Witness ==
    /\ ConfigChangedEnded /\ AccessRulesWellFormed /\ RouteValid
    /\ RelationExists /\ ~RelationReady
    /\ pass.valid = "True" /\ pass.relation = "not_ready"
    /\ Len(relations) = 2 /\ is_ready(relations[2])

\* C7: a flag set by a failed access_rules JSON check stays true, and the
\* status Blocked, until a pass whose JSON check succeeds; a flag set by a
\* failed route template check stays true, and the status Blocked, until a
\* pass whose is_valid succeeds.  Stated of the passes that return.
C7_ClearedOnlyBySameCheck ==
    [][ (pass'.event # "" /\ pass'.err = "") =>
        /\ (invalid_config /\ set_by = "access_rules" /\ pass'.json # "ok")
            => (invalid_config' /\ status'.name = "blocked")
        /\ (invalid_config /\ set_by = "route" /\ pass'.valid # "True")
            => (invalid_config' /\ status'.name = "blocked") ]_vars

\* C8: invalid_config is false initially, and after a config-changed pass
\* with well-formed access_rules and a valid route template it is false
\* and the status is the one the relation state decides.
C8_FlagClearedByValidConfig ==
    /\ ~invalid_config
    /\ [](  (ConfigChangedEnded /\ AccessRulesWellFormed /\ RouteValid)
            => /\ ~invalid_config
               /\ status = IF ~RelationExists
                           THEN BlockedStatus(AwaitingRelationMessage)
                           ELSE IF ~RelationReady
                           THEN BlockedStatus(RelationNotReadyMessage)
                           ELSE ActiveStatus )

\* C8 after an earlier pass had set the flag because of invalid JSON
C8_Witness ==
    /\ ConfigChangedEnded /\ AccessRulesWellFormed /\ RouteValid
    /\ pass.before.invalid_config /\ pass.before.set_by = "access_rules"
    /\ ~invalid_config

\* C9: a pass publishes a URL only if, in that pass, access_rules was
\* present and well-formed, the route template passed is_valid and the
\* relation was found to exist and be ready.
C9_PublishOnlyAfterChecks ==
    (PassEnded /\ pass.calls # << >>)
        => /\ AccessRulesWellFormed
           /\ RouteValid /\ pass.valid = "True"
           /\ RelationReady /\ pass.relation = "ready"

\* the url a unit is to be given: the root_url template with the unit's
\* model, its name with "/" replaced by "-", and its application
RootUrlFor(unit) ==
    substitute(Val(config.root_url), ModelName,
               [i \in 1..Len(unit) |-> IF unit[i] = "/" THEN "-" ELSE unit[i]],
               << relations[1].app >>)

CallsFor(unit) == { i \in 1..Len(pass.calls) : pass.calls[i].unit = unit }

\* C10: a pass that reaches publication invokes publish_url exactly once
\* for each ready unit of the relation, with that unit's name and its own
\* rendered root_url, and not at all for a unit that is not ready.
C10_PublishOncePerReadyUnit ==
    pass.generated
        => \A unit \in DOMAIN relations[1].data :
             IF is_unit_ready(relations[1], unit)
             THEN /\ Cardinality(CallsFor(unit)) = 1
                  /\ \A i \in CallsFor(unit) :
                       /\ pass.calls[i].name = unit
                       /\ pass.calls[i].url = RootUrlFor(unit)
             ELSE CallsFor(unit) = {}

\* C10 with one unit ready and the other not
C10_Witness ==
    /\ pass.generated
    /\ Len(pass.calls) = 1
    /\ \E unit \in DOMAIN relations[1].data :
           ~is_unit_ready(relations[1], unit)
    /\ JujuUnit \in { Val(config.root_url)[i] :
                        i \in 1..Len(Val(config.root_url)) }

\* the urls a pass has published, by requester
Published(p) ==
    { [name |-> p.calls[i].name, url |-> p.calls[i].url] :
        i \in 1..Len(p.calls) }

\* C11: handling the same event twice in a row, with the config and the
\* relation data unchanged, the second run publishes the same url to each
\* requester as the first, leaves the status and invalid_config as the first
\* run left them, and raises no error.
C11_Idempotent ==
    [][ pass'.rerun =>
        /\ Published(pass') = Published(pass)
        /\ status' = status
        /\ invalid_config' = invalid_config
        /\ pass'.err = "" ]_vars

\* whether a template has a token among toks
references(template, toks) == Truthy(template) /\ has_token(Val(template), toks)

\* C12: for every pair of root_url and rule (absent, empty, whitespace
\* only, with surrounding whitespace, naming an unsupported variable,
\* malformed as a template, rendering to a url without hostname) is_valid
\* returns a boolean and raises nothing.
C12_IsValidNeverRaises ==
    pass.event = "is_valid" => pass.valid \in {"True", "False"}

NamesUnknownVariable ==
    references(config.root_url, UnknownVars)
        \/ references(config.rule, UnknownVars)

\* C13: a route template whose root_url or rule names a variable other
\* than juju_model, juju_application and juju_unit makes is_valid return
\* false and makes render raise TemplateKeyError for every context; a
\* template that names only those three never makes render raise
\* TemplateKeyError.
C13_StrictVariables ==
    /\ (pass.event = "is_valid" /\ NamesUnknownVariable)
           => pass.valid = "False"
    /\ (pass.event = "render" /\ NamesUnknownVariable)
           => pass.route.err = "TemplateKeyError"
    /\ (pass.event = "render" /\ ~NamesUnknownVariable)
           => pass.route.err # "TemplateKeyError"

\* what render is to return for the data of a unit: the templates with the
\* unit's model, its name with "/" turned into "-", and its application
DashedName(unit_data) ==
    [i \in 1..Len(unit_data.name) |->
        IF unit_data.name[i] = "/" THEN "-" ELSE unit_data.name[i]]
Rendered(template, unit_data) ==
    substitute(template, unit_data.model, DashedName(unit_data),
               << Head(unit_data.name) >>)
Renders(template) ==
    ~has_token(template, Unparsable) /\ ~has_token(template, UnknownVars)
Returned(route, url, rule, unit_data) ==
    /\ route.err = ""
    /\ route.root_url = url
    /\ route.rule = rule
    /\ route.id_ = DashedName(unit_data) \o << "-" >> \o unit_data.model

\* C14: render returns the rendered root_url, the rendered rule when a
\* rule is given and otherwise the Host matcher on the hostname of the
\* rendered root_url, and the id made of the unit name with "/" replaced by
\* "-", a "-" and the model name; without a rule and without a hostname in
\* the rendered root_url it raises RuleDerivationError.
C14_RenderDescriptor ==
    (pass.event = "render" /\ Renders(Val(config.root_url)))
        => IF Truthy(config.rule)
           THEN Renders(Val(config.rule))
                  => Returned(pass.route,
                              Rendered(Val(config.root_url), pass.unit_data),
                              Rendered(Val(config.rule), pass.unit_data),
                              pass.unit_data)
           ELSE IF hostname(Rendered(Val(config.root_url), pass.unit_data))
                      = << >>
           THEN pass.route.err = "RuleDerivationError"
           ELSE Returned(pass.route,
                         Rendered(Val(config.root_url), pass.unit_data),
                         << "Host(" >>
                           \o hostname(Rendered(Val(config.root_url),
                                                pass.unit_data))
                           \o << ")" >>,
                         pass.unit_data)

\* C14 for a root_url whose hostname comes from the variables: the rule is
\* derived from the rendered url
C14_Witness ==
    /\ pass.event = "render"
    /\ config.rule = None
    /\ pass.route.root_url
         = << "http://", "remote", "-", "0", ".", "remote", "/" >>
    /\ pass.route.rule = << "Host(", "remote", "-", "0", ".", "remote", ")" >>
    /\ pass.route.id_ = << "remote", "-", "0", "-", "testing" >>

\* C15: merging the routes of the ready units drops none: the merged
\* configuration has one router and one service for each of them, also
\* when two of them have the same id.
C15_MergeKeepsEveryRoute ==
    (pass.event = "generate" /\ pass.err = "")
        => /\ Cardinality(DOMAIN pass.traefik_config.http.routers)
                = Len(pass.calls)
           /\ Cardinality(DOMAIN pass.traefik_config.http.services)
                = Len(pass.calls)

\* C16: the merged configuration does not depend on the order in which
\* the units are processed: every order gives the same routers and the
\* same services.
C16_MergeOrderIndependent ==
    (pass.event = "generate" /\ pass.err = "")
        => \A order \in Orders(ready_units(relations[1])) :
             _generate_traefik_forwardauth_config(
                 config, relations[1], order).traefik_config
               = pass.traefik_config

DataProvidedEnded == pass.event = "data_provided"

\* C17: a data_provided event handled while is_valid is false for the route
\* template, or the relation is missing, or the relation is not ready, is
\* deferred and the handler returns without rendering or publishing; handled
\* with the template valid and the relation ready it is not deferred, the
\* urls are published and the status is recomputed.
C17_DeferUnlessReady ==
    /\ (DataProvidedEnded /\ (RouteInvalid \/ ~RelationReady))
         => (pass.deferred /\ NothingPublished /\ pass.err = "")
    /\ (DataProvidedEnded /\ RouteValid /\ RelationReady)
         => /\ ~pass.deferred
            /\ pass.generated /\ pass.calls # << >>
            /\ pass.err = ""
            /\ status = _on_update_status(config, relations, invalid_config,
                                          UnknownStatus)

AllMet == AccessRulesWellFormed /\ RouteValid /\ RelationReady

\* every ready unit of the relation has its rendered url in the
\* application databag of the relation
Served ==
    \A unit \in ready_units(relations[1]) :
        /\ unit \in DOMAIN relations[1].ingress
        /\ relations[1].ingress[unit] = RootUrlFor(unit)

\* C18: once a data_provided event is deferred, if from some time on
\* access_rules is well-formed, the route template valid and the relation
\* ready, then, the deferred events being re-emitted, the status becomes
\* Active and every ready unit has its url published, with no
\* config-changed event needed.
C18_DeferredEventuallyServed ==
    (deferred > 0) ~> (~AllMet \/ (status = ActiveStatus /\ Served))

\* C18: a re-emitted event is handled with everything in place, after the
\* flag had been set, and ends Active with the urls published
C18_Witness ==
    /\ DataProvidedEnded /\ pass.reemitted /\ pass.before.invalid_config
    /\ AllMet
    /\ deferred = 0
    /\ pass.calls # << >>
    /\ status = ActiveStatus /\ Served

\* C19: with more than one relation on the endpoint a pass uses the first
\* one only: its readiness is the one checked, the data read is that of
\* its units, the urls are published to it and the other relations are
\* left as they are; the pass does not fail for it (only an exception of
\* is_valid ends a pass) and does not block for it (with the JSON check not
\* failed, the template valid and the first relation ready it ends Active).
C19_FirstRelationOnly ==
    [][ (pass'.event # "" /\ Len(relations) > 1) =>
        /\ pass'.relation \in {"ready", "not_ready"}
             => ((pass'.relation = "ready") <=> is_ready(relations[1]))
        /\ \A i \in 1..Len(pass'.calls) :
             /\ pass'.calls[i].unit \in ready_units(relations[1])
             /\ pass'.calls[i].name
                  = get_data(relations[1], pass'.calls[i].unit).name
             /\ pass'.calls[i].name \in DOMAIN relations'[1].ingress
             /\ relations'[1].ingress[pass'.calls[i].name]
                  = pass'.calls[i].url
        /\ Len(relations') = Len(relations)
        /\ \A i \in 2..Len(relations) : relations'[i] = relations[i]
        /\ pass'.err # "" => pass'.valid = pass'.err
        /\ (pass'.err = "" /\ pass'.json # "failed" /\ pass'.valid = "True"
              /\ is_ready(relations[1]))
             => (status' = ActiveStatus /\ pass'.calls # << >>) ]_vars

\* C19 with a second relation that is ready too and gets nothing
C19_Witness ==
    /\ PassEnded /\ Len(relations) = 2
    /\ is_ready(relations[2]) /\ relations[2].ingress = EmptyMap
    /\ pass.relation = "ready" /\ pass.calls # << >>
    /\ status = ActiveStatus

\* C20: Maintenance is transient: a config-changed pass that returns ends
\* Blocked or Active, not with the Maintenance status it sets midway,
\* whatever access_rules, the route template, the relation and the flag
\* are; and a data_provided pass never sets Maintenance.
C20_MaintenanceTransient ==
    /\ []((ConfigChangedEnded /\ pass.err = "")
              => status.name \in {"blocked", "active"})
    /\ [][ pass'.event = "data_provided"
              => (status' = status \/ status'.name # "maintenance") ]_vars

\* C20 for a pass that set Maintenance, found the template invalid and
\* started with the flag set, so that _on_update_status returned at once
C20_Witness ==
    /\ ConfigChangedEnded /\ pass.err = ""
    /\ pass.json # "failed" /\ pass.valid = "False"
    /\ pass.before.invalid_config
    /\ status = BlockedStatus(InvalidConfigMessage)

\* C21: at the end of every pass, invalid_config being true implies that
\* the status is Blocked with the invalid-JSON reason or with the
\* invalid-or-missing-config reason.
C21_FlagImpliesBlocked ==
    (PassEnded /\ invalid_config)
        => status \in { BlockedStatus(InvalidJsonMessage),
                        BlockedStatus(InvalidConfigMessage) }

====
